---- MODULE Spec2Model ----
(***************************************************************************)
(* Kanji Constituent Auto-Fill (Anki add-on, src/__init__.py).             *)
(*                                                                         *)
(* Text is a sequence of Unicode code points; a Python dict is a sequence  *)
(* of <<key, value>> pairs with distinct keys, in insertion order.         *)
(* Code points used below:                                                 *)
(*   26408 = U+6728 (tree kanji)    26519 = U+6797 (woods kanji)           *)
(*   12288 = U+3000 (ideographic space)                                    *)
(*   32 = space, 44 = ",", 58 = ":", 91 = "[", 93 = "]",                   *)
(*   97.. = "a".., 65.. = "A"..                                            *)
(***************************************************************************)
EXTENDS Integers, Sequences, FiniteSets, TLC

VARIABLES
    KANJI_CACHE,   \* the in-memory cache: function from code point to meaning
    cache_file,    \* contents of CACHE_FILE on disk
    CFG,           \* the configuration record
    hooked,        \* TRUE iff editFocusLost was registered at import time
    col,           \* the host collection: sequence of notes of all decks
    op,            \* the handler that ran last
    word,          \* on_js_command: the text after "kanjiLookup:"
    cache0,        \* KANJI_CACHE at the entry of the last handler
    meanings,      \* lookup_with_cache's returned dict
    queried,       \* the characters the last handler passed to col.find_notes
    html,          \* on_js_command: the rendered summary
    note0,         \* populate: the note as passed in
    note,          \* populate: the note after the call
    populated,     \* populate: the returned bool
    bulk,          \* bulk_add: the nids it was given, what populate returned for
                   \* each, the nids it passed to col.update_note, its tooltip
    injected,      \* window.__KANJI_LOOKUP_INJECTED__ of the page
    tips           \* the kanji-tooltip elements attached to the page body

vars == <<KANJI_CACHE, cache_file, CFG, hooked, col, op, word, cache0, meanings,
          queried, html, note0, note, populated, bulk, injected, tips>>

Nil == "nil"

(***************************************************************************)
(* Bounds of the model.                                                    *)
(***************************************************************************)
MaxTextLen == 2    \* longest text sent to the hover lookup
MaxDeck == 2       \* most notes in the host collection
MaxTips == 2       \* most tooltip elements attached at once
MaxExtractLen == 3 \* longest text of the kanji extraction runs
MaxSelected == 2   \* most notes selected for a bulk run

(***************************************************************************)
(* Strings.                                                                *)
(***************************************************************************)
\* str.isspace for the code points that occur in the model
IsSpace(c) == c \in {9, 10, 11, 12, 13, 32, 160, 12288}

RECURSIVE LStrip(_)
LStrip(s) == IF s # <<>> /\ IsSpace(Head(s)) THEN LStrip(Tail(s)) ELSE s

RECURSIVE RStrip(_)
RStrip(s) ==
    IF s # <<>> /\ IsSpace(s[Len(s)]) THEN RStrip(SubSeq(s, 1, Len(s) - 1)) ELSE s

\* str.strip()
Strip(s) == RStrip(LStrip(s))

\* str.lower() on the ASCII letters
Lower(s) == [i \in 1..Len(s) |-> IF s[i] \in 65..90 THEN s[i] + 32 ELSE s[i]]

\* `sub in s` for strings
Contains(s, sub) ==
    \E i \in 1..(Len(s) - Len(sub) + 1) : SubSeq(s, i, i + Len(sub) - 1) = sub

InSeq(x, s) == \E i \in 1..Len(s) : s[i] = x

\* str.split(sep) for a one-character separator
RECURSIVE SplitFrom(_, _, _)
SplitFrom(s, sep, cur) ==
    IF s = <<>> THEN <<cur>>
    ELSE IF Head(s) = sep THEN <<cur>> \o SplitFrom(Tail(s), sep, <<>>)
    ELSE SplitFrom(Tail(s), sep, Append(cur, Head(s)))

Split(s, sep) == SplitFrom(s, sep, <<>>)

\* sep.join(parts)
RECURSIVE Join(_, _)
Join(parts, sep) ==
    IF parts = <<>> THEN <<>>
    ELSE IF Len(parts) = 1 THEN parts[1]
    ELSE parts[1] \o sep \o Join(Tail(parts), sep)

(***************************************************************************)
(* Python dicts, in insertion order.                                       *)
(***************************************************************************)
DictKeys(d) == [i \in 1..Len(d) |-> d[i][1]]
DictHas(d, k) == \E i \in 1..Len(d) : d[i][1] = k
DictGet(d, k) == d[CHOOSE i \in 1..Len(d) : d[i][1] = k][2]

\* d[k] = v: an existing key keeps its position
DictSet(d, k, v) ==
    IF DictHas(d, k)
    THEN [i \in 1..Len(d) |-> IF d[i][1] = k THEN <<k, v>> ELSE d[i]]
    ELSE Append(d, <<k, v>>)

\* d.update(m)
RECURSIVE DictUpdate(_, _)
DictUpdate(d, m) ==
    IF m = <<>> THEN d
    ELSE DictUpdate(DictSet(d, m[1][1], m[1][2]), Tail(m))

(***************************************************************************)
(* Configuration.                                                          *)
(***************************************************************************)
_defaults ==
    [targetDeck |-> "Kanji_Deck",
     searchField |-> "Expression",
     additionalField |-> "keyword",
     sourceField |-> "Expression",
     destinationField |-> "Constituents",
     lookupOnAdd |-> TRUE,
     noteTypes |-> <<>>]

(***************************************************************************)
(* Kanji helpers.                                                          *)
(***************************************************************************)
\* KANJI_RE = [U+4E00-U+9FFF]
KANJI_RE == 19968..40959

\* a slip: the "ch not in seen" is left out
extract_unique_kanji_repeating(text) ==
    LET IsKanji(ch) == ch \in KANJI_RE IN SelectSeq(text, IsKanji)

RECURSIVE extract_loop(_, _, _)
extract_loop(text, i, out) ==
    IF i > Len(text) THEN out
    ELSE extract_loop(text, i + 1,
                      IF text[i] \in KANJI_RE /\ ~InSeq(text[i], out)
                      THEN Append(out, text[i]) ELSE out)

extract_unique_kanji(text) == extract_loop(text, 1, <<>>)

\* col.find_notes('deck:"<deck>" "<k>"'): the ids, in id order, of the notes of
\* the deck that hold k in some field
RECURSIVE find_from(_, _, _, _)
find_from(c, deck, k, i) ==
    IF i > Len(c) THEN <<>>
    ELSE (IF c[i].deck = deck
             /\ \E f \in DOMAIN c[i].flds : InSeq(k, c[i].flds[f])
          THEN <<i>> ELSE <<>>) \o find_from(c, deck, k, i + 1)

find_notes(c, deck, k) == find_from(c, deck, k, 1)

\* a slip: a kanji without a matching note is answered with ""
RECURSIVE scan_notes_default(_, _, _, _, _, _)
scan_notes_default(c, note_ids, i, k, s_field, a_field) ==
    IF i > Len(note_ids) THEN [found |-> TRUE, v |-> <<>>]
    ELSE LET n == c[note_ids[i]].flds IN
         IF s_field \in DOMAIN n /\ Strip(n[s_field]) = <<k>>
         THEN [found |-> TRUE,
               v |-> IF a_field \in DOMAIN n THEN Strip(n[a_field]) ELSE <<>>]
         ELSE scan_notes_default(c, note_ids, i + 1, k, s_field, a_field)

\* the inner loop of lookup_meanings over the candidate notes of one kanji:
\* a note without the search field raises KeyError and is passed over
RECURSIVE scan_notes(_, _, _, _, _, _)
scan_notes(c, note_ids, i, k, s_field, a_field) ==
    IF i > Len(note_ids) THEN [found |-> FALSE, v |-> <<>>]
    ELSE LET n == c[note_ids[i]].flds IN
         IF s_field \in DOMAIN n /\ Strip(n[s_field]) = <<k>>
         THEN [found |-> TRUE,
               v |-> IF a_field \in DOMAIN n THEN Strip(n[a_field]) ELSE <<>>]
         ELSE scan_notes(c, note_ids, i + 1, k, s_field, a_field)

RECURSIVE meanings_loop(_, _, _, _, _)
meanings_loop(kanji, i, res, c, cfg) ==
    IF i > Len(kanji) THEN res
    ELSE LET k == kanji[i]
             r == scan_notes(c, find_notes(c, cfg.targetDeck, k), 1, k,
                             cfg.searchField, cfg.additionalField)
         IN meanings_loop(kanji, i + 1,
                          IF r.found THEN DictSet(res, k, r.v) ELSE res, c, cfg)

lookup_meanings(kanji, c, cfg) == meanings_loop(kanji, 1, <<>>, c, cfg)

\* "\u3000".join(f"{k}: {v}".strip() for k, v in mapping.items() if v)
RECURSIVE pair_texts(_)
pair_texts(mapping) ==
    IF mapping = <<>> THEN <<>>
    ELSE (IF mapping[1][2] # <<>>
          THEN <<Strip(<<mapping[1][1], 58, 32>> \o mapping[1][2])>>
          ELSE <<>>) \o pair_texts(Tail(mapping))

join_pairs(mapping) == Join(pair_texts(mapping), <<12288>>)

(***************************************************************************)
(* Populate one note.                                                      *)
(***************************************************************************)
\* mw.col.media.strip: deletes the media references of a field value; a
\* reference is written here as a bracketed span "[...]"
RECURSIVE media_strip(_)
media_strip(s) ==
    IF s = <<>> THEN <<>>
    ELSE IF Head(s) = 91 /\ InSeq(93, Tail(s))
    THEN LET j == CHOOSE i \in 1..Len(s) :
                      s[i] = 93 /\ \A h \in 2..(i - 1) : s[h] # 93
         IN media_strip(SubSeq(s, j + 1, Len(s)))
    ELSE <<Head(s)>> \o media_strip(Tail(s))

\* a slip: the "if t.strip()" is left out
RECURSIVE filter_entries_blank(_)
filter_entries_blank(parts) ==
    IF parts = <<>> THEN <<>>
    ELSE <<Lower(Strip(parts[1]))>> \o filter_entries_blank(Tail(parts))

\* [t.strip().lower() for t in str(CFG["noteTypes"]).split(",") if t.strip()]
RECURSIVE filter_entries(_)
filter_entries(parts) ==
    IF parts = <<>> THEN <<>>
    ELSE (IF Strip(parts[1]) # <<>> THEN <<Lower(Strip(parts[1]))>> ELSE <<>>)
         \o filter_entries(Tail(parts))

nt_filter(cfg) == filter_entries(Split(cfg.noteTypes, 44))

\* the note-type check at the head of populate
type_filtered(n, cfg) ==
    /\ nt_filter(cfg) # <<>>
    /\ ~\E i \in 1..Len(nt_filter(cfg)) : Contains(Lower(n.ntname), nt_filter(cfg)[i])

\* populate(note): ret is the returned bool, note the note afterwards,
\* queried the characters handed to the source lookup
populate(n, c, cfg) ==
    LET src == cfg.sourceField
        dst == cfg.destinationField
        skip == [ret |-> FALSE, note |-> n, queried |-> <<>>]
    IN  IF type_filtered(n, cfg) THEN skip
        ELSE IF src \notin DOMAIN n.flds \/ dst \notin DOMAIN n.flds THEN skip
        ELSE LET expr == Strip(media_strip(n.flds[src])) IN
             IF expr = <<>> THEN skip
             ELSE LET kanji == extract_unique_kanji(expr) IN
                  IF kanji = <<>> THEN skip
                  ELSE LET mapping == lookup_meanings(kanji, c, cfg) IN
                       IF mapping = <<>>
                       THEN [ret |-> FALSE, note |-> n, queried |-> kanji]
                       ELSE [ret |-> TRUE,
                             note |-> [n EXCEPT !.flds[dst] = join_pairs(mapping)],
                             queried |-> kanji]

(***************************************************************************)
(* Bulk action.                                                            *)
(***************************************************************************)
\* a slip: update_note and the count for every selected note
RECURSIVE bulk_loop_unconditional(_, _, _, _, _, _, _)
bulk_loop_unconditional(nids, i, c, cfg, rets, upd, qs) ==
    IF i > Len(nids)
    THEN [col |-> c, returns |-> rets, updated |-> upd, queried |-> qs]
    ELSE LET r == populate(c[nids[i]], c, cfg)
         IN bulk_loop_unconditional(nids, i + 1, [c EXCEPT ![nids[i]] = r.note],
                                    cfg, Append(rets, r.ret),
                                    Append(upd, nids[i]), qs \o r.queried)

\* the loop of bulk_add: col is the collection afterwards, returns what
\* populate returned for each nid, updated the nids passed to col.update_note
\* (changed is their number), queried the characters handed to the source
RECURSIVE bulk_loop(_, _, _, _, _, _, _)
bulk_loop(nids, i, c, cfg, rets, upd, qs) ==
    IF i > Len(nids)
    THEN [col |-> c, returns |-> rets, updated |-> upd, queried |-> qs]
    ELSE LET r == populate(c[nids[i]], c, cfg)
         IN IF r.ret
            THEN bulk_loop(nids, i + 1, [c EXCEPT ![nids[i]] = r.note], cfg,
                           Append(rets, TRUE), Append(upd, nids[i]),
                           qs \o r.queried)
            ELSE bulk_loop(nids, i + 1, c, cfg, Append(rets, FALSE), upd,
                           qs \o r.queried)

\* tooltip(f"Updated {changed} notes" if changed else "No notes needed")
bulk_tooltip(changed) ==
    IF changed # 0 THEN [text |-> "Updated n notes", n |-> changed]
    ELSE [text |-> "No notes needed"]

(***************************************************************************)
(* The cache.                                                              *)
(***************************************************************************)
EmptyCache == [k \in {} |-> <<>>]

\* a slip: whatever the file holds is taken, parsed or not
load_cache_salvage(file) == file.data

\* load_cache(): the parsed file, or {} when it is missing, cannot be opened
\* or does not parse
load_cache(file) == IF file.kind = "json" THEN file.data ELSE EmptyCache

\* save_cache(cache): the file afterwards. outcome "ok": the dump completed;
\* "open_failed": open() raised and the file is as before; "write_failed":
\* open() truncated the file and the dump raised before completing
save_cache(cache, file, outcome) ==
    CASE outcome = "ok" -> [kind |-> "json", data |-> cache]
      [] outcome = "open_failed" -> file
      [] outcome = "write_failed" -> [kind |-> "partial", data |-> EmptyCache]

\* a slip: the deck's answers are returned but never stored
cache_update_dropped(cache, m) == cache

\* a slip: the table is replaced by the deck's answers instead of merged
cache_update_replacing(cache, m) ==
    [k \in {m[i][1] : i \in 1..Len(m)} |-> DictGet(m, k)]

\* KANJI_CACHE.update(meanings)
cache_update(cache, m) ==
    [k \in DOMAIN cache \cup {m[i][1] : i \in 1..Len(m)} |->
        IF DictHas(m, k) THEN DictGet(m, k) ELSE cache[k]]

\* a slip: the cached meanings are not put into the result
cache_hits_unreturned(kanji_list, cache) == <<>>

\* Step 1, the hits: result[k] = KANJI_CACHE[k] for the k in the cache
cache_hits(kanji_list, cache) ==
    LET Hit(k) == k \in DOMAIN cache
        hits == SelectSeq(kanji_list, Hit)
    IN [i \in 1..Len(hits) |-> <<hits[i], cache[hits[i]]>>]

\* a slip: every character is looked up in the deck again
cache_misses_all(kanji_list, cache) == kanji_list

\* Step 1, the misses: new_kanji
cache_misses(kanji_list, cache) ==
    LET Miss(k) == k \notin DOMAIN cache
    IN SelectSeq(kanji_list, Miss)

\* lookup_with_cache(word): result is the returned dict, cache the cache
\* afterwards, new_kanji the characters looked up in the deck, and saves is
\* TRUE iff save_cache(KANJI_CACHE) was called
lookup_with_cache(w, cache, c, cfg) ==
    LET kanji_list == extract_unique_kanji(w)
        result == cache_hits(kanji_list, cache)
        new_kanji == cache_misses(kanji_list, cache)
    IN  IF new_kanji # <<>>
        THEN LET m == lookup_meanings(new_kanji, c, cfg) IN
             [result |-> DictUpdate(result, m),
              cache |-> cache_update(cache, m),
              new_kanji |-> new_kanji,
              saves |-> TRUE]
        ELSE [result |-> result, cache |-> cache, new_kanji |-> <<>>,
              saves |-> FALSE]

(***************************************************************************)
(* Hover lookup.                                                           *)
(***************************************************************************)
\* "kanjiLookup:"
LookupPrefix == <<107, 97, 110, 106, 105, 76, 111, 111, 107, 117, 112, 58>>

StartsWith(s, p) == Len(s) >= Len(p) /\ SubSeq(s, 1, Len(p)) = p

\* cmd.split(":", 1)[1], for a cmd that holds a colon
after_colon(cmd) ==
    LET j == CHOOSE i \in 1..Len(cmd) : cmd[i] = 58 /\ \A h \in 1..(i - 1) : cmd[h] # 58
    IN SubSeq(cmd, j + 1, Len(cmd))

\* a slip: the "if v" is left out
RECURSIVE html_lines_unfiltered(_)
html_lines_unfiltered(m) ==
    IF m = <<>> THEN <<>>
    ELSE <<(<<m[1][1], 58, 32>> \o m[1][2])>> \o html_lines_unfiltered(Tail(m))

\* f"{k}: {v}" for k, v in meanings.items() if v
RECURSIVE html_lines(_)
html_lines(m) ==
    IF m = <<>> THEN <<>>
    ELSE (IF m[1][2] # <<>> THEN <<(<<m[1][1], 58, 32>> \o m[1][2])>> ELSE <<>>)
         \o html_lines(Tail(m))

\* f"No kanji found in '{word}'."
not_found(w) ==
    <<78, 111, 32, 107, 97, 110, 106, 105, 32, 102, 111, 117, 110, 100, 32,
      105, 110, 32, 39>> \o w \o <<39, 46>>

\* "<br>".join(...) or f"No kanji found in '{word}'."
render_html(m, w) ==
    LET joined == Join(html_lines(m), <<60, 98, 114, 62>>)
    IN IF joined # <<>> THEN joined ELSE not_found(w)

\* setTimeout(..., 5000) and setTimeout(() => tip.remove(), 200), in ms
DISMISS_MS == 5000
FADE_MS == 200

\* doc.createElement('div'): the identity of the new element, one that no
\* attached element has
new_element(ts) ==
    CHOOSE n \in 1..(Len(ts) + 1) :
        /\ \A i \in 1..Len(ts) : ts[i].id # n
        /\ \A m \in 1..(n - 1) : \E i \in 1..Len(ts) : ts[i].id = m

\* a slip: the 5000 ms timeout is never set
showLookupTooltip_untimed(ts, h, rect) ==
    IF ~rect THEN ts
    ELSE Append(ts, [id |-> new_element(ts), html |-> h, opacity |-> 0,
                     raf |-> TRUE, timer |-> "none", left |-> DISMISS_MS])

\* showLookupTooltip(text, html): the tooltip elements afterwards. rect is
\* FALSE when the page has no selection rectangle. id is the element the
\* callbacks of this call hold
showLookupTooltip(ts, h, rect) ==
    IF ~rect THEN ts
    ELSE Append(ts, [id |-> new_element(ts), html |-> h, opacity |-> 0,
                     raf |-> TRUE, timer |-> "dismiss", left |-> DISMISS_MS])

(***************************************************************************)
(* Inputs of the model.                                                    *)
(***************************************************************************)
\* the two kanji of the model and the letter "a"
Kanji == {26408, 26519}
Alphabet == Kanji \cup {97}

SeqsUpTo(S, n) == UNION {[1..m -> S] : m \in 0..n}

\* texts a page may send after "kanjiLookup:"
Texts == SeqsUpTo(Alphabet, MaxTextLen)

\* messages of the js bridge: the lookups, and the reviewer's own "ans"
Cmds == {LookupPrefix \o t : t \in Texts} \cup {<<97, 110, 115>>}

\* texts for the kanji extraction: the two kanji, the ends of the range
\* U+4E00 and U+9FFF, and their outer neighbours U+4DFF and U+A000
ExtractAlphabet == Kanji \cup {19967, 19968, 40959, 40960}
ExtractTexts == SeqsUpTo(ExtractAlphabet, MaxExtractLen)

\* notes of the host collection: flds maps field name to value
KanjiNote(e, k) ==
    [deck |-> "Kanji_Deck", flds |-> [f \in {"Expression", "keyword"} |->
                                        IF f = "Expression" THEN e ELSE k]]

DeckNotes ==
    { KanjiNote(<<26408>>, <<116>>),                 \* tree kanji: "t"
      KanjiNote(<<32, 26519>>, <<119, 32>>),         \* " <woods kanji>": "w "
      KanjiNote(<<26519>>, <<>>),                    \* woods kanji: ""
      [deck |-> "Kanji_Deck",
       flds |-> [f \in {"Expression"} |-> <<26408>>]],   \* no meaning field
      [deck |-> "Kanji_Deck",
       flds |-> [f \in {"keyword"} |-> <<26408>>]] }    \* no search field

\* collections of up to MaxDeck different notes, in every order of note id
Collections ==
    {c \in SeqsUpTo(DeckNotes, MaxDeck) :
        \A i, j \in 1..Len(c) : c[i] = c[j] => i = j}

\* meanings an earlier process may have left in the cache file: "t"
StoredMeanings == {<<116>>}
StoredCaches == UNION {[S -> StoredMeanings] : S \in SUBSET Kanji}

CacheFiles ==
    {[kind |-> "absent", data |-> EmptyCache],
     [kind |-> "partial", data |-> EmptyCache]}
    \cup {[kind |-> "json", data |-> c] : c \in StoredCaches}

SaveOutcomes == {"ok", "open_failed", "write_failed"}

\* cache files a process may find at import: none, one that open() refuses,
\* one cut off in the middle of the entries in data, and complete ones
LoadFiles ==
    {[kind |-> "absent", data |-> EmptyCache]}
    \cup {[kind |-> k, data |-> c] :
            k \in {"unreadable", "partial", "json"}, c \in StoredCaches}

\* values of the noteTypes setting: "", "x, VO", "x,", ","
NoteTypeFilters ==
    {<<>>, <<120, 44, 32, 86, 79>>, <<120, 44>>, <<44>>}

\* note-type names: "Vo", "Kj"
NoteTypeNames == {<<86, 111>>, <<75, 106>>}

\* source field values: " ", "[a]<tree> ", "<woods><tree>", "a"
Expressions ==
    {<<32>>, <<91, 97, 93, 26408, 32>>, <<26519, 26408>>, <<97>>}

\* destination field values: "o", "<tree>: t"
Constituents == {<<111>>, <<26408, 58, 32, 116>>}

EditorNotes ==
    {[ntname |-> nt,
      flds |-> [f \in {"Expression", "Constituents"} |->
                  IF f = "Expression" THEN e ELSE d]] :
        nt \in NoteTypeNames, e \in Expressions, d \in Constituents}
    \cup {[ntname |-> nt, flds |-> [f \in {"Expression"} |-> e]] :
            nt \in NoteTypeNames, e \in Expressions}

FieldNames == {"Expression", "Constituents"}

\* a collection for the bulk action: the tree kanji's note in the kanji deck
\* and three vocabulary notes, "<tree> ", "a" and "<woods><tree>", each with
\* "o" in Constituents
BulkNote(deck, nt, e) ==
    [deck |-> deck, ntname |-> nt,
     flds |-> [f \in {"Expression", "Constituents"} |->
                 IF f = "Expression" THEN e ELSE <<111>>]]

BulkCollection ==
    << [deck |-> "Kanji_Deck", ntname |-> <<75, 106>>,
        flds |-> [f \in {"Expression", "keyword"} |->
                    IF f = "Expression" THEN <<26408>> ELSE <<116>>]],
       BulkNote("Vocab", <<86, 111>>, <<26408, 32>>),
       BulkNote("Vocab", <<86, 111>>, <<97>>),
       BulkNote("Vocab", <<86, 111>>, <<26519, 26408>>) >>

\* the selections of the browser: up to MaxSelected different notes, in
\* every order
Selections ==
    {n \in SeqsUpTo(1..Len(BulkCollection), MaxSelected) :
        \A i, j \in 1..Len(n) : n[i] = n[j] => i = j}

\* keywords the user may give the tree kanji's note: "t", "w"
Keywords == {<<116>>, <<119>>}

\* steps by which the page's clock advances, in ms
TickSteps == {FADE_MS, DISMISS_MS - FADE_MS}

(***************************************************************************)
(* Handlers.                                                               *)
(***************************************************************************)
\* on_js_command(handled, cmd, context), with the script it evaluates in the
\* page: window.AnkiHoverShow exists only where the hover script was injected.
\* outcomes are the ways the write of save_cache may end, when it is called
on_js_command(cmd, rect, outcomes) ==
    /\ StartsWith(cmd, LookupPrefix)
    /\ \E w \in {after_colon(cmd)} :
       /\ (injected /\ rect) => Len(tips) < MaxTips
       /\ \E r \in {lookup_with_cache(w, KANJI_CACHE, col, CFG)} :
          /\ KANJI_CACHE' = r.cache
          /\ IF r.saves
             THEN \E outcome \in outcomes :
                     cache_file' = save_cache(r.cache, cache_file, outcome)
             ELSE cache_file' = cache_file
          /\ meanings' = r.result
          /\ queried' = r.new_kanji
          /\ \E h \in {render_html(r.result, w)} :
                /\ html' = h
                /\ tips' = IF injected THEN showLookupTooltip(tips, h, rect) ELSE tips
       /\ word' = w
    /\ op' = "on_js_command"
    /\ cache0' = KANJI_CACHE
    /\ note0' = Nil /\ note' = Nil /\ populated' = Nil /\ bulk' = Nil
    /\ UNCHANGED <<CFG, hooked, col, injected>>

\* on_edit_focus(flag, note, field_idx): field is the name of the field at
\* field_idx
on_edit_focus(n, field) ==
    /\ hooked
    /\ CFG.lookupOnAdd
    /\ CFG.sourceField \in DOMAIN n.flds
    /\ field = CFG.sourceField
    /\ \E r \in {populate(n, col, CFG)} :
          /\ note0' = n
          /\ note' = r.note
          /\ populated' = r.ret
          /\ queried' = r.queried
    /\ op' = "on_edit_focus"
    /\ cache0' = KANJI_CACHE
    /\ word' = Nil /\ meanings' = Nil /\ html' = Nil /\ bulk' = Nil
    /\ UNCHANGED <<KANJI_CACHE, cache_file, CFG, hooked, col, injected, tips>>

\* bulk_add(nids). The configuration _load_cfg() reads back is the one in CFG
bulk_add(nids) ==
    /\ IF nids = <<>>
       THEN /\ col' = col
            /\ queried' = <<>>
            /\ bulk' = [nids |-> nids, returns |-> <<>>, updated |-> <<>>,
                        tooltip |-> [text |-> "No notes selected"]]
       ELSE \E r \in {bulk_loop(nids, 1, col, CFG, <<>>, <<>>, <<>>)} :
               /\ col' = r.col
               /\ queried' = r.queried
               /\ bulk' = [nids |-> nids, returns |-> r.returns,
                           updated |-> r.updated,
                           tooltip |-> bulk_tooltip(Len(r.updated))]
    /\ op' = "bulk_add"
    /\ cache0' = KANJI_CACHE
    /\ word' = Nil /\ meanings' = Nil /\ html' = Nil
    /\ note0' = Nil /\ note' = Nil /\ populated' = Nil
    /\ UNCHANGED <<KANJI_CACHE, cache_file, CFG, hooked, injected, tips>>

\* the user edits the meaning field of note nid in the host's editor
host_edit_note(nid, v) ==
    /\ nid \in 1..Len(col)
    /\ CFG.additionalField \in DOMAIN col[nid].flds
    /\ col[nid].flds[CFG.additionalField] # v
    /\ col' = [col EXCEPT ![nid].flds[CFG.additionalField] = v]
    /\ op' = "host_edit_note"
    /\ cache0' = KANJI_CACHE
    /\ word' = Nil /\ meanings' = Nil /\ html' = Nil /\ queried' = <<>>
    /\ note0' = Nil /\ note' = Nil /\ populated' = Nil /\ bulk' = Nil
    /\ UNCHANGED <<KANJI_CACHE, cache_file, CFG, hooked, injected, tips>>

\* show_options() accepted with the given note-type filter and checkbox
show_options(types, lookup) ==
    /\ CFG' = [CFG EXCEPT !.noteTypes = Strip(types), !.lookupOnAdd = lookup]
    /\ CFG' # CFG
    /\ op' = "show_options"
    /\ cache0' = KANJI_CACHE
    /\ word' = Nil /\ meanings' = Nil /\ html' = Nil /\ queried' = <<>>
    /\ note0' = Nil /\ note' = Nil /\ populated' = Nil /\ bulk' = Nil
    /\ UNCHANGED <<KANJI_CACHE, cache_file, hooked, col, injected, tips>>

\* inject_hover_script(web_content, context) into a page of an allowed context
inject_hover_script(allowed) ==
    /\ allowed
    /\ ~injected
    /\ injected' = TRUE
    /\ UNCHANGED <<KANJI_CACHE, cache_file, CFG, hooked, col, op, word, cache0,
                   meanings, queried, html, note0, note, populated, bulk, tips>>

page_frame == <<KANJI_CACHE, cache_file, CFG, hooked, col, op, word, cache0,
                meanings, queried, html, note0, note, populated, bulk, injected>>

\* requestAnimationFrame(() => { tip.style.opacity = '1'; })
raf_callback(i) ==
    /\ i \in 1..Len(tips)
    /\ tips[i].raf
    /\ tips' = [tips EXCEPT ![i].opacity = 1, ![i].raf = FALSE]
    /\ UNCHANGED page_frame

\* the 5000 ms timeout: tip.style.opacity = '0'; setTimeout(remove, 200)
dismiss_timeout(i) ==
    /\ i \in 1..Len(tips)
    /\ tips[i].timer = "dismiss"
    /\ tips[i].left = 0
    /\ tips' = [tips EXCEPT ![i].opacity = 0, ![i].timer = "remove",
                            ![i].left = FADE_MS]
    /\ UNCHANGED page_frame

\* the 200 ms timeout: tip.remove()
remove_timeout(i) ==
    /\ i \in 1..Len(tips)
    /\ tips[i].timer = "remove"
    /\ tips[i].left = 0
    /\ tips' = [j \in 1..(Len(tips) - 1) |-> IF j < i THEN tips[j] ELSE tips[j + 1]]
    /\ UNCHANGED page_frame

\* dt ms pass on the page; no pending timeout is overrun
tick(dt) ==
    /\ tips # <<>>
    /\ \A i \in 1..Len(tips) : tips[i].left >= dt
    /\ tips' = [i \in 1..Len(tips) |-> [tips[i] EXCEPT !.left = @ - dt]]
    /\ UNCHANGED page_frame

(***************************************************************************)
(* Specifications.                                                         *)
(***************************************************************************)
InitCommon ==
    /\ op = "init"
    /\ word = Nil /\ meanings = Nil /\ html = Nil /\ queried = <<>>
    /\ note0 = Nil /\ note = Nil /\ populated = Nil /\ bulk = Nil
    /\ injected = FALSE
    /\ tips = <<>>
    /\ KANJI_CACHE = load_cache(cache_file)
    /\ cache0 = KANJI_CACHE
    /\ hooked = CFG.lookupOnAdd

\* the hover lookup from a page without the hover script
Init ==
    /\ cache_file \in CacheFiles
    /\ col \in Collections
    /\ CFG = _defaults
    /\ InitCommon

Next ==
    \E cmd \in Cmds : on_js_command(cmd, FALSE, SaveOutcomes)

Spec == Init /\ [][Next]_vars

\* the editor's automatic fill, under every setting of the note-type filter
InitPopulate ==
    /\ cache_file \in {[kind |-> "absent", data |-> EmptyCache],
                       [kind |-> "json", data |-> [k \in {26408} |-> <<116>>]]}
    /\ col \in Collections
    /\ CFG \in {[_defaults EXCEPT !.noteTypes = t] : t \in NoteTypeFilters}
    /\ InitCommon

NextPopulate ==
    \/ \E n \in EditorNotes, f \in FieldNames : on_edit_focus(n, f)
    \/ \E t \in NoteTypeFilters, b \in BOOLEAN : show_options(t, b)

SpecPopulate == InitPopulate /\ [][NextPopulate]_vars

\* the hover lookup in a reviewer page
InitHover ==
    /\ cache_file = [kind |-> "absent", data |-> EmptyCache]
    /\ col = <<KanjiNote(<<26408>>, <<116>>), KanjiNote(<<26519>>, <<119>>)>>
    /\ CFG = _defaults
    /\ InitCommon

NextHover ==
    \/ \E allowed \in BOOLEAN : inject_hover_script(allowed)
    \/ \E t \in {<<26408>>, <<26519>>}, rect \in BOOLEAN :
          on_js_command(LookupPrefix \o t, rect, {"ok"})
    \/ \E i \in 1..MaxTips : raf_callback(i)
    \/ \E i \in 1..MaxTips : dismiss_timeout(i)
    \/ \E i \in 1..MaxTips : remove_timeout(i)
    \/ \E dt \in TickSteps : tick(dt)

SpecHover == InitHover /\ [][NextHover]_vars

\* a reviewer page with a selection, and the browser's event loop running: a
\* timeout that is due fires, and time passes while none is due
NextDismiss ==
    \/ \E allowed \in BOOLEAN : inject_hover_script(allowed)
    \/ on_js_command(LookupPrefix \o <<26408>>, TRUE, {"ok"})
    \/ \E i \in 1..MaxTips : raf_callback(i)
    \/ \E i \in 1..MaxTips : dismiss_timeout(i)
    \/ \E i \in 1..MaxTips : remove_timeout(i)
    \/ \E dt \in TickSteps : tick(dt)

SpecDismiss ==
    /\ InitHover /\ [][NextDismiss]_vars
    /\ WF_vars(\E i \in 1..MaxTips : dismiss_timeout(i))
    /\ WF_vars(\E i \in 1..MaxTips : remove_timeout(i))
    /\ WF_vars(\E dt \in TickSteps : tick(dt))

\* a process started on any cache file, with a deck that resolves the tree
\* kanji to "t" and the woods kanji to "w"
InitLoad ==
    /\ cache_file \in LoadFiles
    /\ col = <<KanjiNote(<<26408>>, <<116>>), KanjiNote(<<26519>>, <<119>>)>>
    /\ CFG = _defaults
    /\ InitCommon

NextLoad ==
    \E cmd \in Cmds : on_js_command(cmd, FALSE, SaveOutcomes)

SpecLoad == InitLoad /\ [][NextLoad]_vars

\* hover lookups with an empty cache and an empty deck: every character the
\* extraction returns is handed to the source, and none is ever cached
InitExtract ==
    /\ cache_file = [kind |-> "absent", data |-> EmptyCache]
    /\ col = <<>>
    /\ CFG = _defaults
    /\ InitCommon

NextExtract ==
    \E t \in ExtractTexts : on_js_command(LookupPrefix \o t, FALSE, {"ok"})

SpecExtract == InitExtract /\ [][NextExtract]_vars

\* a session with the browser's bulk action, the editor, the hover lookup
\* and the user changing the kanji deck
InitBulk ==
    /\ cache_file = [kind |-> "absent", data |-> EmptyCache]
    /\ col = BulkCollection
    /\ CFG = _defaults
    /\ InitCommon

NextBulk ==
    \/ \E nids \in Selections : bulk_add(nids)
    \/ \E v \in Keywords : host_edit_note(1, v)
    \/ \E t \in {<<26408>>, <<26519, 26408>>} :
          on_js_command(LookupPrefix \o t, FALSE, {"ok"})
    \/ \E e \in {<<26519, 26408>>, <<97>>} :
          on_edit_focus(BulkNote("Vocab", <<86, 111>>, e), "Expression")

SpecBulk == InitBulk /\ [][NextBulk]_vars

(***************************************************************************)
(* The source of truth, read off the collection: the notes of the target   *)
(* deck whose search field, trimmed, is exactly the character; the first   *)
(* of them gives the meaning.                                              *)
(***************************************************************************)
SourceMatches(k) ==
    {i \in 1..Len(col) :
        /\ col[i].deck = CFG.targetDeck
        /\ CFG.searchField \in DOMAIN col[i].flds
        /\ Strip(col[i].flds[CFG.searchField]) = <<k>>}

SourceResolves(k) == SourceMatches(k) # {}

SourceMeaning(k) ==
    LET i == CHOOSE j \in SourceMatches(k) : \A h \in SourceMatches(k) : j <= h
    IN IF CFG.additionalField \in DOMAIN col[i].flds
       THEN Strip(col[i].flds[CFG.additionalField]) ELSE <<>>

Elems(s) == {s[i] : i \in 1..Len(s)}

\* the characters of the last lookup's text
LookedUp == Elems(extract_unique_kanji(word))

(***************************************************************************)
(* C1. After a hover lookup, every character of the text that was in the   *)
(* cache is returned with its cached meaning, every missed character the   *)
(* source resolves is returned with the source's meaning, and the cache    *)
(* then holds each of the latter with that meaning.                        *)
(***************************************************************************)
C1_TwoTierMerge ==
    op = "on_js_command" =>
        \A k \in LookedUp :
            /\ k \in DOMAIN cache0 =>
                  DictHas(meanings, k) /\ DictGet(meanings, k) = cache0[k]
            /\ (k \notin DOMAIN cache0 /\ SourceResolves(k)) =>
                  /\ DictHas(meanings, k)
                  /\ DictGet(meanings, k) = SourceMeaning(k)
                  /\ k \in DOMAIN KANJI_CACHE
                  /\ KANJI_CACHE[k] = SourceMeaning(k)

\* "<tree><woods>" with the tree kanji cached as "t" and the woods kanji
\* answered "w" by the deck
C1_Witness ==
    /\ op = "on_js_command"
    /\ word = <<26408, 26519>>
    /\ cache0 = [k \in {26408} |-> <<116>>]
    /\ meanings = <<<<26408, <<116>>>>, <<26519, <<119>>>>>>
    /\ KANJI_CACHE = [k \in {26408, 26519} |-> IF k = 26408 THEN <<116>> ELSE <<119>>]

C4_EmptyMeaningPersists ==
    op = "on_js_command" =>
        /\ \A k \in LookedUp :
              (k \notin DOMAIN cache0 /\ SourceResolves(k) /\ SourceMeaning(k) = <<>>) =>
                  k \in DOMAIN KANJI_CACHE /\ KANJI_CACHE[k] = <<>>
        /\ \A i \in 1..Len(queried) : queried[i] \notin DOMAIN cache0
        /\ \A k \in DOMAIN cache0 :
              k \in DOMAIN KANJI_CACHE /\ KANJI_CACHE[k] = cache0[k]

\* a later lookup of a character that an earlier lookup cached with "":
\* nothing is looked up and the entry stays ""
C4_Witness ==
    /\ op = "on_js_command"
    /\ \E k \in LookedUp :
          /\ k \in DOMAIN cache0 /\ cache0[k] = <<>>
          /\ KANJI_CACHE[k] = <<>>
    /\ queried = <<>>

(***************************************************************************)
(* C5. A missed character the source has no entry for is not added to the  *)
(* cache (when no missed character is resolved, the cache is as before),   *)
(* and every lookup whose text holds a character that is not in the cache  *)
(* hands it to the source.                                                 *)
(***************************************************************************)
C5_UnresolvedRetried ==
    op = "on_js_command" =>
        /\ \A k \in LookedUp :
              k \notin DOMAIN cache0 =>
                  /\ InSeq(k, queried)
                  /\ ~SourceResolves(k) => k \notin DOMAIN KANJI_CACHE
        /\ (\A k \in LookedUp \ DOMAIN cache0 : ~SourceResolves(k)) =>
              KANJI_CACHE = cache0

\* a later lookup (the cache is no longer empty) that asks the deck for the
\* woods kanji and gets nothing
C5_Witness ==
    /\ op = "on_js_command"
    /\ 26519 \in LookedUp
    /\ InSeq(26519, queried)
    /\ ~SourceResolves(26519)
    /\ cache0 # EmptyCache
    /\ cache_file.kind = "json"
    /\ KANJI_CACHE = cache0

(***************************************************************************)
(* C6 as stated: the returned dict lists its entries in the order of first *)
(* occurrence of the characters in the text.                               *)
(***************************************************************************)
C6_FirstOccurrenceOrder ==
    op = "on_js_command" =>
        LET Returned(k) == DictHas(meanings, k)
        IN DictKeys(meanings) = SelectSeq(extract_unique_kanji(word), Returned)

(***************************************************************************)
(* The editor's note of the last automatic fill.                           *)
(***************************************************************************)
\* TRUE iff the note carries both configured fields
HasFields(n) ==
    CFG.sourceField \in DOMAIN n.flds /\ CFG.destinationField \in DOMAIN n.flds

\* the characters of the note's source field
NoteKanji(n) ==
    Elems(extract_unique_kanji(Strip(media_strip(n.flds[CFG.sourceField]))))

\* the non-blank entries of the noteTypes setting, trimmed and lower-cased
FilterEntries ==
    {Lower(Strip(Split(CFG.noteTypes, 44)[i])) :
        i \in 1..Len(Split(CFG.noteTypes, 44))} \ {<<>>}

(***************************************************************************)
(* C2 as stated: populate takes the meaning of a character that is in the  *)
(* cache from the cache, so a note that passes the checks and holds a      *)
(* character cached with a non-empty meaning is populated, its destination *)
(* field shows that character with the cached meaning, and the source is   *)
(* not asked for it.                                                       *)
(***************************************************************************)
C2_PopulateReadsCache ==
    (op = "on_edit_focus" /\ ~type_filtered(note0, CFG) /\ HasFields(note0)) =>
        \A k \in NoteKanji(note0) :
            (k \in DOMAIN KANJI_CACHE /\ KANJI_CACHE[k] # <<>>) =>
                /\ populated = TRUE
                /\ Contains(note.flds[CFG.destinationField],
                            <<k, 58, 32>> \o KANJI_CACHE[k])
                /\ ~InSeq(k, queried)

(***************************************************************************)
(* C7 as stated: when no character of the source field has a non-empty     *)
(* meaning, in the deck or in the cache, populate returns false and the    *)
(* note is as it was.                                                      *)
(***************************************************************************)
C7_SkipWithoutMeaning ==
    (op = "on_edit_focus" /\ HasFields(note0)
        /\ \A k \in NoteKanji(note0) :
              /\ ~SourceResolves(k) \/ SourceMeaning(k) = <<>>
              /\ k \notin DOMAIN KANJI_CACHE \/ KANJI_CACHE[k] = <<>>)
    => (populated = FALSE /\ note = note0)

(***************************************************************************)
(* C8 as stated: populate returns true iff the destination field's value   *)
(* after the call differs from its value before.                           *)
(***************************************************************************)
C8_TrueIffChanged ==
    op = "on_edit_focus" => (populated = TRUE <=> note # note0)

(***************************************************************************)
(* C9. With at least one non-blank entry in noteTypes and none of them a   *)
(* substring of the lower-cased note-type name, populate returns false,    *)
(* leaves every field of the note as it was and asks the source nothing;   *)
(* with no non-blank entry the check passes, so a note with both fields    *)
(* and a kanji in its source field reaches the source lookup.              *)
(***************************************************************************)
C9_NoteTypeFilter ==
    op = "on_edit_focus" =>
        /\ (FilterEntries # {}
            /\ \A t \in FilterEntries : ~Contains(Lower(note0.ntname), t))
           => (populated = FALSE /\ note = note0 /\ queried = <<>>)
        /\ (FilterEntries = {} /\ HasFields(note0) /\ NoteKanji(note0) # {})
           => Elems(queried) = NoteKanji(note0)

\* a "Kj" note whose tree kanji the deck resolves, skipped by the filter
\* "x, VO"
C9_Witness ==
    /\ op = "on_edit_focus"
    /\ CFG.noteTypes = <<120, 44, 32, 86, 79>>
    /\ note0.ntname = <<75, 106>>
    /\ HasFields(note0)
    /\ \E k \in NoteKanji(note0) : SourceResolves(k) /\ SourceMeaning(k) # <<>>
    /\ populated = FALSE
    /\ note = note0

(***************************************************************************)
(* C10 as stated: at most one overlay is visible at any time.              *)
(***************************************************************************)
C10_OneOverlayVisible ==
    Cardinality({i \in 1..Len(tips) : tips[i].opacity = 1}) <= 1

(***************************************************************************)
(* The tooltip elements of the page, by element.                           *)
(***************************************************************************)
Attached(ts, n) == \E i \in 1..Len(ts) : ts[i].id = n

TipOf(ts, n) == ts[CHOOSE i \in 1..Len(ts) : ts[i].id = n]

(***************************************************************************)
(* C11. Every tooltip element that is attached is removed in the end; it   *)
(* is removed only by its own 200 ms timeout falling due, which is set     *)
(* only when its own 5000 ms timeout has fallen due; a call that attaches  *)
(* an element sets that element's timeout to the full 5000 ms and leaves   *)
(* the timeouts of the elements attached before as they were.              *)
(***************************************************************************)
C11_AutoDismiss ==
    /\ \A n \in 1..MaxTips : Attached(tips, n) ~> ~Attached(tips, n)
    /\ [][\A n \in 1..MaxTips :
            /\ (Attached(tips, n) /\ ~Attached(tips', n)) =>
                  TipOf(tips, n).timer = "remove" /\ TipOf(tips, n).left = 0
            /\ (Attached(tips, n) /\ Attached(tips', n)
                /\ TipOf(tips, n).timer # TipOf(tips', n).timer) =>
                  /\ TipOf(tips, n).timer = "dismiss" /\ TipOf(tips, n).left = 0
                  /\ TipOf(tips', n).timer = "remove"
                  /\ TipOf(tips', n).left = FADE_MS
                  /\ TipOf(tips', n).opacity = 0
            /\ (~Attached(tips, n) /\ Attached(tips', n)) =>
                  /\ TipOf(tips', n).timer = "dismiss"
                  /\ TipOf(tips', n).left = DISMISS_MS
                  /\ \A m \in 1..MaxTips :
                        Attached(tips, m) =>
                            Attached(tips', m) /\ TipOf(tips', m) = TipOf(tips, m)
       ]_vars

\* a second tooltip with 4800 ms of its own 5000 ms left, while the first
\* one's removal is due
C11_Witness ==
    /\ Len(tips) = 2
    /\ tips[1].timer = "remove" /\ tips[1].left = 0
    /\ tips[2].timer = "dismiss" /\ tips[2].left = DISMISS_MS - FADE_MS

(***************************************************************************)
(* C12 as stated: whenever the cache file changes, the new file is the     *)
(* complete dump of the in-memory cache; a failed save leaves the file     *)
(* of the last successful write, never a truncated or partial one.         *)
(***************************************************************************)
C12_DurableSnapshot ==
    [][cache_file' # cache_file =>
          (cache_file'.kind = "json" /\ cache_file'.data = KANJI_CACHE')]_vars

(***************************************************************************)
(* C13. At import the cache equals the contents of a cache file that       *)
(* parses, and is empty when the file is missing, cannot be opened or is   *)
(* cut off; the first lookup of a process that started on such a file      *)
(* returns exactly the characters of the text the source resolves, each    *)
(* with the source's meaning.                                              *)
(***************************************************************************)
C13_LoadOnStart ==
    /\ KANJI_CACHE = (IF cache_file.kind = "json" THEN cache_file.data
                      ELSE EmptyCache)
    /\ [][(op = "init" /\ cache_file.kind # "json") =>
            /\ op' = "on_js_command"
            /\ LET ks == Elems(extract_unique_kanji(word'))
               IN /\ \A k \in ks :
                        SourceResolves(k) =>
                            /\ DictHas(meanings', k)
                            /\ DictGet(meanings', k) = SourceMeaning(k)
                  /\ \A i \in 1..Len(meanings') :
                        meanings'[i][1] \in ks /\ SourceResolves(meanings'[i][1])
      ]_vars

\* a process that found a file cut off after the tree kanji's entry, and
\* whose lookup resolved both kanji from the deck while the save failed
C13_Witness ==
    /\ op = "on_js_command"
    /\ cache_file = [kind |-> "partial", data |-> [k \in {26408} |-> <<116>>]]
    /\ cache0 = EmptyCache
    /\ Len(meanings) = 2

\* the position of the first occurrence of ch in text
FirstAt(text, ch) ==
    CHOOSE i \in 1..Len(text) : text[i] = ch /\ \A h \in 1..(i - 1) : text[h] # ch

(***************************************************************************)
(* C14. With nothing cached, the characters a lookup extracts from its     *)
(* text (all of which it hands to the source) are exactly the characters   *)
(* of the text from U+4E00 to U+9FFF, each once, in the order of their     *)
(* first occurrence; extracting from that list again returns the list;     *)
(* "<tree><woods><tree>" gives <tree>, <woods> and "" gives nothing.       *)
(***************************************************************************)
C14_ExtractUnique ==
    (op = "on_js_command" /\ cache0 = EmptyCache) =>
        /\ \A i \in 1..Len(queried) :
              /\ queried[i] >= 19968 /\ queried[i] <= 40959
              /\ InSeq(queried[i], word)
        /\ \A j \in 1..Len(word) :
              (word[j] >= 19968 /\ word[j] <= 40959) => InSeq(word[j], queried)
        /\ \A i, j \in 1..Len(queried) :
              /\ queried[i] = queried[j] => i = j
              /\ i < j => FirstAt(word, queried[i]) < FirstAt(word, queried[j])
        /\ extract_unique_kanji(queried) = queried
        /\ word = <<26408, 26519, 26408>> => queried = <<26408, 26519>>
        /\ word = <<>> => queried = <<>>

\* "<tree><woods><tree>"
C14_Witness ==
    /\ op = "on_js_command"
    /\ cache0 = EmptyCache
    /\ word = <<26408, 26519, 26408>>
    /\ queried = <<26408, 26519>>

\* the notes SourceMatches(k) that carry the meaning field as well
SourceComplete(k) ==
    {i \in SourceMatches(k) : CFG.additionalField \in DOMAIN col[i].flds}

(***************************************************************************)
(* C15 as stated: a candidate note that lacks the search field or the      *)
(* meaning field is passed over, so a missed character gets the meaning    *)
(* of the first matching note that carries both fields, and no entry at    *)
(* all when no matching note carries both.                                 *)
(***************************************************************************)
C15_FieldlessSkipped ==
    op = "on_js_command" =>
        \A k \in LookedUp :
            k \notin DOMAIN cache0 =>
                IF SourceComplete(k) = {}
                THEN ~DictHas(meanings, k)
                ELSE /\ DictHas(meanings, k)
                     /\ LET i == CHOOSE j \in SourceComplete(k) :
                                    \A h \in SourceComplete(k) : j <= h
                        IN DictGet(meanings, k) =
                              Strip(col[i].flds[CFG.additionalField])

(***************************************************************************)
(* C16 as stated: a hover request that repeats the text of the request     *)
(* before it renders the same summary as that request did.                 *)
(***************************************************************************)
C16_RepeatRendersSame ==
    [][(op = "on_js_command" /\ op' = "on_js_command" /\ word' = word) =>
          html' = html]_vars

(***************************************************************************)
(* C17. No step of a session (hover lookup, editor fill, bulk run, or the  *)
(* user changing the deck) removes a key from the in-memory cache or       *)
(* changes the meaning stored for it.                                      *)
(***************************************************************************)
C17_EntriesPermanent ==
    [][\A k \in DOMAIN KANJI_CACHE :
          k \in DOMAIN KANJI_CACHE' /\ KANJI_CACHE'[k] = KANJI_CACHE[k]]_vars

\* a hover lookup answers the tree kanji with the cached "t" after the user
\* changed its note to "w" and a bulk run wrote "w" into a vocabulary note
C17_Witness ==
    /\ op = "on_js_command"
    /\ 26408 \in LookedUp
    /\ 26408 \in DOMAIN cache0 /\ cache0[26408] = <<116>>
    /\ SourceResolves(26408) /\ SourceMeaning(26408) = <<119>>
    /\ KANJI_CACHE[26408] = <<116>>
    /\ DictGet(meanings, 26408) = <<116>>
    /\ col[2].flds["Constituents"] = <<26408, 58, 32, 119>>

\* the last hover lookup called save_cache and the cache file is not the
\* dump of the cache: the write failed
SaveFailed ==
    /\ op = "on_js_command"
    /\ queried # <<>>
    /\ cache_file # [kind |-> "json", data |-> KANJI_CACHE]

(***************************************************************************)
(* C18. When the write of save_cache fails, the lookup still returns its   *)
(* result and the cache holds every character the source resolved, with    *)
(* the source's meaning; the next lookup does not hand any cached          *)
(* character to the source and returns the cached meaning for those in     *)
(* its text.                                                               *)
(***************************************************************************)
C18_SaveFailureKeepsMerge ==
    /\ [](SaveFailed =>
            \A i \in 1..Len(queried) :
                SourceResolves(queried[i]) =>
                    /\ queried[i] \in DOMAIN KANJI_CACHE
                    /\ KANJI_CACHE[queried[i]] = SourceMeaning(queried[i])
                    /\ DictHas(meanings, queried[i])
                    /\ DictGet(meanings, queried[i]) = SourceMeaning(queried[i]))
    /\ [][(SaveFailed /\ op' = "on_js_command") =>
            \A k \in DOMAIN KANJI_CACHE :
                /\ ~InSeq(k, queried')
                /\ InSeq(k, word') =>
                      /\ DictHas(meanings', k)
                      /\ DictGet(meanings', k) = KANJI_CACHE[k]
      ]_vars

\* a lookup served from the cache alone, in a process that started on a
\* cut-off file and has not managed to write it since
C18_Witness ==
    /\ op = "on_js_command"
    /\ cache_file.kind = "partial"
    /\ queried = <<>>
    /\ \E k \in LookedUp :
          /\ k \in DOMAIN cache0
          /\ DictHas(meanings, k) /\ DictGet(meanings, k) = cache0[k]

(***************************************************************************)
(* C19 as stated: the cache file changes only in a step that adds an       *)
(* entry to the in-memory cache.                                           *)
(***************************************************************************)
C19_WriteOnlyAfterMerge ==
    [][cache_file' # cache_file => KANJI_CACHE' # KANJI_CACHE]_vars

\* the nids of a bulk run for which populate returned true, in run order
RECURSIVE ReturnedTrue(_, _)
ReturnedTrue(nids, rets) ==
    IF nids = <<>> THEN <<>>
    ELSE (IF Head(rets) THEN <<Head(nids)>> ELSE <<>>)
         \o ReturnedTrue(Tail(nids), Tail(rets))

(***************************************************************************)
(* C20. A bulk run calls populate once for each selected note, in the      *)
(* order given: it returns true exactly for the notes that carry both      *)
(* fields and hold a character the deck resolves. update_note is called    *)
(* for the notes populate returned true for, in that order, and for no     *)
(* other; such a note differs from before in its destination field only,   *)
(* which shows each resolved character with its meaning; every other note  *)
(* of the collection is as before; the tooltip reports the number of       *)
(* notes populate returned true for, and "No notes needed" when it is 0.   *)
(***************************************************************************)
C20_BulkUpdatesPopulated ==
    [][(op' = "bulk_add" /\ bulk'.nids # <<>>) =>
          LET b == bulk'
              dst == CFG.destinationField
          IN /\ Len(b.returns) = Len(b.nids)
             /\ \A i \in 1..Len(b.nids) :
                   b.returns[i] =
                      (/\ HasFields(col[b.nids[i]])
                       /\ \E k \in NoteKanji(col[b.nids[i]]) : SourceResolves(k))
             /\ b.updated = ReturnedTrue(b.nids, b.returns)
             /\ Len(col') = Len(col)
             /\ \A nid \in 1..Len(col) :
                   IF InSeq(nid, b.updated)
                   THEN /\ col'[nid] = [col[nid] EXCEPT !.flds[dst] = col'[nid].flds[dst]]
                        /\ \A k \in NoteKanji(col[nid]) :
                              (SourceResolves(k) /\ SourceMeaning(k) # <<>>) =>
                                  Contains(col'[nid].flds[dst],
                                           <<k, 58, 32>> \o SourceMeaning(k))
                   ELSE col'[nid] = col[nid]
             /\ b.tooltip = (IF Len(b.updated) > 0
                             THEN [text |-> "Updated n notes", n |-> Len(b.updated)]
                             ELSE [text |-> "No notes needed"])
    ]_vars

\* the notes "a" and "<woods><tree>" selected in that order: the first is
\* left alone, the second is populated and persisted, and 1 is reported
C20_Witness ==
    /\ op = "bulk_add"
    /\ bulk.nids = <<3, 4>>
    /\ bulk.returns = <<FALSE, TRUE>>
    /\ bulk.updated = <<4>>
    /\ bulk.tooltip = [text |-> "Updated n notes", n |-> 1]
    /\ col[3] = BulkCollection[3]
    /\ col[4].flds["Constituents"] = <<26408, 58, 32, 116>>

====
